---- MODULE Spec2Model ----
(***************************************************************************)
(* Model of the work-execution pipeline of plx: a Worker thread            *)
(* (core/work/worker.rs) runs a Launcher (core/launcher/launcher.rs),      *)
(* which drives a Runner and translates its RunEvents to outward Events.   *)
(* The Runner (core/runner/runner.rs) is modelled from its description in  *)
(* the specification, section 4.1.                                         *)
(***************************************************************************)
EXTENDS Integers, Sequences, FiniteSets, TLC

\* ---------------------------------------------------------------- bounds
MaxLines == 2
MaxId == 1

Ids == 0..MaxId
Lines == {"l1", "l2"}
Errs == {"enoent", "eacces"}
ExitInfos == {"exit0", "exit1"}

VARIABLES
    wid,          \* Worker.id
    lid,          \* Launcher.id
    should_stop,  \* the shared Arc<AtomicBool>
    rx_open,      \* the Receiver<Event> of the outward channel is alive
    work_rx_open, \* the Receiver<WorkEvent> of the dispatcher is alive
    wpc,          \* position of the Worker: "new", "spawned", "in_run", "terminated"
    lpc,          \* position of Launcher::run: "idle", "runner", "loop", "returned"
    rpc,          \* position of Runner::run: "idle", "spawn", "stream", "returned"
    proc,         \* the subject process: "none", "running", "exited", "killed"
    nlines,       \* lines the process has printed so far
    runner_chan,  \* RunEvents queued on the internal channel of Launcher::run
    outward,      \* Events enqueued on the outward channel, in order
    work_chan,    \* WorkEvents enqueued on the dispatcher's channel, in order
    ret,          \* value returned by Launcher::run: "none", "true", "false"
    \* history of the run
    sentRun,      \* every RunEvent the Runner has sent
    received,     \* every RunEvent Launcher::run has received
    attempted,    \* every Event Launcher::run has passed to tx.send
    runCalls,     \* number of calls of work.run
    doneAttempts, \* number of work_tx.send(Done) calls
    brokeOnSend,  \* Launcher::run left its loop through `break`
    earlyCancel,  \* the Runner returned on cancellation without ProcessEnd
    stopAtSpawn   \* value of should_stop when the process was spawned: "none", "set", "clear"

pvars == <<wid, lid, should_stop, rx_open, work_rx_open, wpc, lpc, rpc, proc,
           nlines, runner_chan, outward, work_chan, ret, sentRun, received,
           attempted, runCalls, doneAttempts, brokeOnSend, earlyCancel,
           stopAtSpawn>>

\* ---------------------------------------------------------------- check evaluation
\* bounds
MaxChecks == 2
MaxPasses == 2

VARIABLES
    exo_checks,   \* Exo.checks of the exercise being validated
    checks,       \* the Vec<CheckState> of the current validation pass
    cur,          \* position (from 1) of the check being run
    captured,     \* standard output captured for the check being run
    pass,         \* number of validation passes started
    \* history of the pass
    created,      \* the CheckStates as CheckState::new returned them
    visited,      \* for each check, the statuses it has had, in order
    failErr,      \* for each check, the error of its RunFail Event ("" if none)
    lastEval      \* last call of all_checks_passed: its argument and result

cvars == <<exo_checks, checks, cur, captured, pass, created, visited, failErr,
           lastEval>>

\* no validation pass is going on
CheckIdle ==
    /\ exo_checks = <<>>
    /\ checks = <<>>
    /\ cur = 0
    /\ captured = ""
    /\ pass = 0
    /\ created = <<>>
    /\ visited = <<>>
    /\ failErr = <<>>
    /\ lastEval = [on |-> <<>>, res |-> "none"]

\* ---------------------------------------------------------------- exercise
\* bounds
MaxSols == 3
MaxFiles == 3

VARIABLES
    exo_solutions, \* Exo.solutions
    lastSol,       \* last call of get_solution_file: exo before, index, result
    exo_files,     \* Exo.files; a path is the list of the parts its name has between dots
    lastCompiler   \* last call of compiler: files before, result

evars == <<exo_solutions, lastSol, exo_files, lastCompiler>>

\* no exercise is looked at
ExoIdle ==
    /\ exo_solutions = <<>>
    /\ lastSol = [before |-> <<>>, idx |-> 0, kind |-> "none", path |-> ""]
    /\ exo_files = <<>>
    /\ lastCompiler = [before |-> <<>>, kind |-> "none", res |-> "None"]

\* ---------------------------------------------------------------- dispatcher
\* bound
MaxSubmits == 3

VARIABLES
    pool,         \* WorkHandler bookkeeping: the ids it tracks
    flag_set,     \* the ids whose cancellation flag is set
    running,      \* the ids of the Workers whose thread has not sent Done yet
    next_id,      \* the next id submit allocates
    done_chan,    \* WorkEvents queued for the dispatcher, with their sender
    \* history
    handed,       \* the ids submit has returned, in order
    doneOf        \* the Workers whose own Done has been processed

hvars == <<pool, flag_set, running, next_id, done_chan, handed, doneOf>>

\* a dispatcher that was given no work
DispatchIdle ==
    /\ pool = {}
    /\ flag_set = {}
    /\ running = {}
    /\ next_id = 0
    /\ done_chan = <<>>
    /\ handed = <<>>
    /\ doneOf = {}

\* ---------------------------------------------------------------- project
\* bounds
MaxSkills == 3
MaxExos == 3
MaxIdx == 3

VARIABLES
    skills,         \* Project.skills: for each skill, its number of exos
    curr_skill_idx, \* Project.state.curr_skill_idx
    curr_exo_idx,   \* Project.state.curr_exo_idx
    saved,          \* ProjectState in the state file
    panicked,       \* an index out of bounds has aborted the program
    lastOp,         \* history: the last operation, its argument, the state before
    found,          \* what the last resume or current_exo call returned
    writes_ok,      \* history: every write of the state file has succeeded
    opened_valid    \* history: the project was opened on indices within bounds

jvars == <<skills, curr_skill_idx, curr_exo_idx, saved, panicked, lastOp,
           found, writes_ok, opened_valid>>

NoOp == [op |-> "none", wrap |-> FALSE, skill |-> 0, exo |-> 0, nsaves |-> 0,
         written |-> TRUE]

\* no exo was looked up
NotLooked == [kind |-> "none", skill |-> 0, exo |-> 0]

\* no project is open
ProjectIdle ==
    /\ skills = <<>>
    /\ curr_skill_idx = 0
    /\ curr_exo_idx = 0
    /\ saved = [curr_skill_idx |-> 0, curr_exo_idx |-> 0]
    /\ panicked = FALSE
    /\ lastOp = NoOp
    /\ found = NotLooked
    /\ writes_ok = TRUE
    /\ opened_valid = TRUE

\* the variables outside the work-execution pipeline
dvars == <<cvars, evars, hvars, jvars>>

DataIdle == CheckIdle /\ ExoIdle /\ DispatchIdle /\ ProjectIdle

\* the variables each of the other specifications leaves alone
outsideChecks == <<pvars, evars, hvars, jvars>>
outsideExo == <<pvars, cvars, hvars, jvars>>
outsideDispatch == <<pvars, cvars, evars, jvars>>
outsideProject == <<pvars, cvars, evars, hvars>>

vars == <<pvars, dvars>>

\* ---------------------------------------------------------------- values
\* RunEvent: [type, arg]; Event: [type, id, arg]; WorkEvent: [type, id]
RunEvent(t, a) == [type |-> t, arg |-> a]
Event(t, i, a) == [type |-> t, id |-> i, arg |-> a]
Done(i) == [type |-> "Done", id |-> i]

\* mutants of Translate
TranslateDropLine(id, msg) ==
    CASE msg.type = "ProcessCreationFailed" -> Event("RunFail", id, msg.arg)
      [] msg.type = "ProcessCreated" -> Event("RunStart", id, "")
      [] msg.type = "ProcessEnd" -> Event("RunEnd", id, "")
      [] msg.type = "ProcessNewOutputLine" -> Event("RunOutputLine", id, "")

TranslateFixedId(id, msg) ==
    CASE msg.type = "ProcessCreationFailed" -> Event("RunFail", 0, msg.arg)
      [] msg.type = "ProcessCreated" -> Event("RunStart", 0, "")
      [] msg.type = "ProcessEnd" -> Event("RunEnd", 0, "")
      [] msg.type = "ProcessNewOutputLine" -> Event("RunOutputLine", 0, msg.arg)

TranslateEndAsLine(id, msg) ==
    CASE msg.type = "ProcessCreationFailed" -> Event("RunFail", id, msg.arg)
      [] msg.type = "ProcessCreated" -> Event("RunStart", id, "")
      [] msg.type = "ProcessEnd" -> Event("RunOutputLine", id, "")
      [] msg.type = "ProcessNewOutputLine" -> Event("RunOutputLine", id, msg.arg)

\* the match of Launcher::run: the Event sent for one RunEvent
Translate(id, msg) ==
    CASE msg.type = "ProcessCreationFailed" -> Event("RunFail", id, msg.arg)
      [] msg.type = "ProcessCreated" -> Event("RunStart", id, "")
      [] msg.type = "ProcessEnd" -> Event("RunEnd", id, "")
      [] msg.type = "ProcessNewOutputLine" -> Event("RunOutputLine", id, msg.arg)

\* mutant of Recv: the newest message is taken first
RecvNewest(chan) ==
    [msg |-> chan[Len(chan)], rest |-> SubSeq(chan, 1, Len(chan) - 1)]

\* runner_rx.recv() on a non-empty channel: the oldest message is taken
Recv(chan) == [msg |-> Head(chan), rest |-> Tail(chan)]

\* mutant of Aborts: the loop goes on after ProcessCreationFailed
AbortsNever(msg) == FALSE

\* the arm of the match that ends with `return false`
Aborts(msg) == msg.type = "ProcessCreationFailed"

\* mutant of Breaks: a failed send is ignored
BreaksNever(send_ok) == FALSE

\* `if send.is_err() { break; }`
Breaks(send_ok) == ~send_ok

\* mutant of LoopExitValue
LoopExitFalse == "false"

\* `return true` after the loop
LoopExitValue == "true"

\* mutant of SendsDone: Done is sent only when run returned true
SendsDoneOnSuccess(r) == r = "true"

\* the thread sends Done whatever work.run returned (its value is dropped)
SendsDone(r) == TRUE

\* Sender::send on a channel whose receiver may have been dropped
Send(chan, open, ev) == IF open THEN Append(chan, ev) ELSE chan

\* ---------------------------------------------------------------- Init
Init ==
    /\ wid \in Ids
    /\ lid \in Ids
    /\ should_stop = FALSE
    /\ rx_open = TRUE
    /\ work_rx_open = TRUE
    /\ wpc = "new"
    /\ lpc = "idle"
    /\ rpc = "idle"
    /\ proc = "none"
    /\ nlines = 0
    /\ runner_chan = <<>>
    /\ outward = <<>>
    /\ work_chan = <<>>
    /\ ret = "none"
    /\ sentRun = <<>>
    /\ received = <<>>
    /\ attempted = <<>>
    /\ runCalls = 0
    /\ doneAttempts = 0
    /\ brokeOnSend = FALSE
    /\ earlyCancel = FALSE
    /\ stopAtSpawn = "none"
    /\ DataIdle

\* no Worker exists
PipelineIdle ==
    /\ wid = 0
    /\ lid = 0
    /\ should_stop = FALSE
    /\ rx_open = TRUE
    /\ work_rx_open = TRUE
    /\ wpc = "new"
    /\ lpc = "idle"
    /\ rpc = "idle"
    /\ proc = "none"
    /\ nlines = 0
    /\ runner_chan = <<>>
    /\ outward = <<>>
    /\ work_chan = <<>>
    /\ ret = "none"
    /\ sentRun = <<>>
    /\ received = <<>>
    /\ attempted = <<>>
    /\ runCalls = 0
    /\ doneAttempts = 0
    /\ brokeOnSend = FALSE
    /\ earlyCancel = FALSE
    /\ stopAtSpawn = "none"

\* ---------------------------------------------------------------- environment
\* the dispatcher sets the cancellation flag
Cancel ==
    /\ ~should_stop
    /\ should_stop' = TRUE
    /\ UNCHANGED <<wid, lid, rx_open, work_rx_open, wpc, lpc, rpc, proc, nlines,
                   runner_chan, outward, work_chan, ret, sentRun, received,
                   attempted, runCalls, doneAttempts, brokeOnSend, earlyCancel,
                   stopAtSpawn>>
    /\ UNCHANGED dvars

\* the front end drops the receiver of the outward channel
DropReceiver ==
    /\ rx_open
    /\ rx_open' = FALSE
    /\ UNCHANGED <<wid, lid, should_stop, work_rx_open, wpc, lpc, rpc, proc,
                   nlines, runner_chan, outward, work_chan, ret, sentRun,
                   received, attempted, runCalls, doneAttempts, brokeOnSend,
                   earlyCancel, stopAtSpawn>>
    /\ UNCHANGED dvars

\* the dispatcher drops the receiver of WorkEvents
DropWorkReceiver ==
    /\ work_rx_open
    /\ work_rx_open' = FALSE
    /\ UNCHANGED <<wid, lid, should_stop, rx_open, wpc, lpc, rpc, proc, nlines,
                   runner_chan, outward, work_chan, ret, sentRun, received,
                   attempted, runCalls, doneAttempts, brokeOnSend, earlyCancel,
                   stopAtSpawn>>
    /\ UNCHANGED dvars

\* ---------------------------------------------------------------- Worker
\* run_on_separate_thread: thread::spawn, the Worker is consumed
RunOnSeparateThread ==
    /\ wpc = "new"
    /\ wpc' = "spawned"
    /\ UNCHANGED <<wid, lid, should_stop, rx_open, work_rx_open, lpc, rpc, proc,
                   nlines, runner_chan, outward, work_chan, ret, sentRun,
                   received, attempted, runCalls, doneAttempts, brokeOnSend,
                   earlyCancel, stopAtSpawn>>
    /\ UNCHANGED dvars

\* the thread calls self.work.run(self.tx, self.should_stop); Launcher::run
\* creates its channel and calls self.runner.run(runner_tx, stop)
WorkerCallRun ==
    /\ wpc = "spawned"
    /\ wpc' = "in_run"
    /\ runCalls' = runCalls + 1
    /\ lpc' = "runner"
    /\ rpc' = "spawn"
    /\ UNCHANGED <<wid, lid, should_stop, rx_open, work_rx_open, proc, nlines,
                   runner_chan, outward, work_chan, ret, sentRun, received,
                   attempted, doneAttempts, brokeOnSend, earlyCancel,
                   stopAtSpawn>>
    /\ UNCHANGED dvars

\* mutant of WorkerSendDone: the thread clears the flag when it ends
WorkerSendDoneClearsFlag ==
    /\ wpc = "in_run"
    /\ lpc = "returned"
    /\ doneAttempts' = doneAttempts + 1
    /\ work_chan' = Send(work_chan, work_rx_open, Done(wid))
    /\ wpc' = "terminated"
    /\ should_stop' = FALSE
    /\ UNCHANGED <<wid, lid, rx_open, work_rx_open, lpc, rpc, proc,
                   nlines, runner_chan, outward, ret, sentRun, received,
                   attempted, runCalls, brokeOnSend, earlyCancel, stopAtSpawn>>
    /\ UNCHANGED dvars

\* mutant of WorkerSendDone: Done is sent while work.run is in its loop
WorkerSendDoneBeforeRunReturns ==
    /\ wpc = "in_run"
    /\ lpc \in {"loop", "returned"}
    /\ doneAttempts' = doneAttempts + 1
    /\ work_chan' = Send(work_chan, work_rx_open, Done(wid))
    /\ wpc' = "terminated"
    /\ UNCHANGED <<wid, lid, should_stop, rx_open, work_rx_open, lpc, rpc, proc,
                   nlines, runner_chan, outward, ret, sentRun, received,
                   attempted, runCalls, brokeOnSend, earlyCancel, stopAtSpawn>>
    /\ UNCHANGED dvars

\* let _ = self.work_tx.send(WorkEvent::Done(self.id)), then the thread ends
WorkerSendDone ==
    /\ wpc = "in_run"
    /\ lpc = "returned"
    /\ IF SendsDone(ret)
       THEN /\ doneAttempts' = doneAttempts + 1
            /\ work_chan' = Send(work_chan, work_rx_open, Done(wid))
       ELSE UNCHANGED <<doneAttempts, work_chan>>
    /\ wpc' = "terminated"
    /\ UNCHANGED <<wid, lid, should_stop, rx_open, work_rx_open, lpc, rpc, proc,
                   nlines, runner_chan, outward, ret, sentRun, received,
                   attempted, runCalls, brokeOnSend, earlyCancel, stopAtSpawn>>
    /\ UNCHANGED dvars

\* ---------------------------------------------------------------- Runner
\* Runner::run returns to Launcher::run, which enters its receive loop
RunnerSends(msg) ==
    /\ runner_chan' = Append(runner_chan, msg)
    /\ sentRun' = Append(sentRun, msg)

\* spawn failure: ProcessCreationFailed(err) is the only event, run returns
RunnerSpawnFail ==
    /\ rpc = "spawn"
    /\ \E err \in Errs : RunnerSends(RunEvent("ProcessCreationFailed", err))
    /\ stopAtSpawn' = IF should_stop THEN "set" ELSE "clear"
    /\ rpc' = "returned"
    /\ lpc' = "loop"
    /\ UNCHANGED <<wid, lid, should_stop, rx_open, work_rx_open, wpc, proc,
                   nlines, outward, work_chan, ret, received, attempted,
                   runCalls, doneAttempts, brokeOnSend, earlyCancel>>
    /\ UNCHANGED dvars

\* spawn success: ProcessCreated
RunnerSpawnOk ==
    /\ rpc = "spawn"
    /\ RunnerSends(RunEvent("ProcessCreated", ""))
    /\ stopAtSpawn' = IF should_stop THEN "set" ELSE "clear"
    /\ proc' = "running"
    /\ rpc' = "stream"
    /\ UNCHANGED <<wid, lid, should_stop, rx_open, work_rx_open, wpc, lpc,
                   nlines, outward, work_chan, ret, received, attempted,
                   runCalls, doneAttempts, brokeOnSend, earlyCancel>>
    /\ UNCHANGED dvars

\* one line of standard output is read and sent
RunnerOutputLine ==
    /\ rpc = "stream"
    /\ ~should_stop
    /\ nlines < MaxLines
    /\ \E l \in Lines : RunnerSends(RunEvent("ProcessNewOutputLine", l))
    /\ nlines' = nlines + 1
    /\ UNCHANGED <<wid, lid, should_stop, rx_open, work_rx_open, wpc, lpc, rpc,
                   proc, outward, work_chan, ret, received, attempted,
                   runCalls, doneAttempts, brokeOnSend, earlyCancel,
                   stopAtSpawn>>
    /\ UNCHANGED dvars

\* the process exits by itself: ProcessEnd(exit_info), run returns
RunnerProcessExit ==
    /\ rpc = "stream"
    /\ ~should_stop
    /\ \E x \in ExitInfos : RunnerSends(RunEvent("ProcessEnd", x))
    /\ proc' = "exited"
    /\ rpc' = "returned"
    /\ lpc' = "loop"
    /\ UNCHANGED <<wid, lid, should_stop, rx_open, work_rx_open, wpc, nlines,
                   outward, work_chan, ret, received, attempted, runCalls,
                   doneAttempts, brokeOnSend, earlyCancel, stopAtSpawn>>
    /\ UNCHANGED dvars

\* the flag is seen set at a poll point: the child is killed and streaming
\* stops; a final ProcessEnd may be sent before run returns
RunnerCancelled ==
    /\ rpc = "stream"
    /\ should_stop
    /\ \/ /\ RunnerSends(RunEvent("ProcessEnd", "killed"))
          /\ earlyCancel' = earlyCancel
       \/ /\ UNCHANGED <<runner_chan, sentRun>>
          /\ earlyCancel' = TRUE
    /\ proc' = "killed"
    /\ rpc' = "returned"
    /\ lpc' = "loop"
    /\ UNCHANGED <<wid, lid, should_stop, rx_open, work_rx_open, wpc, nlines,
                   outward, work_chan, ret, received, attempted, runCalls,
                   doneAttempts, brokeOnSend, stopAtSpawn>>
    /\ UNCHANGED dvars

\* ---------------------------------------------------------------- Launcher
\* one iteration of `while let Ok(msg) = runner_rx.recv()`
LauncherRecv ==
    /\ lpc = "loop"
    /\ runner_chan /= <<>>
    /\ LET msg == Recv(runner_chan).msg
           ev == Translate(lid, msg)
       IN  /\ runner_chan' = Recv(runner_chan).rest
           /\ received' = Append(received, msg)
           /\ attempted' = Append(attempted, ev)
           /\ outward' = Send(outward, rx_open, ev)
           /\ IF Aborts(msg)
              THEN /\ ret' = "false"
                   /\ lpc' = "returned"
                   /\ UNCHANGED brokeOnSend
              ELSE IF Breaks(rx_open)
              THEN /\ ret' = LoopExitValue
                   /\ lpc' = "returned"
                   /\ brokeOnSend' = TRUE
              ELSE UNCHANGED <<ret, lpc, brokeOnSend>>
    /\ UNCHANGED <<wid, lid, should_stop, rx_open, work_rx_open, wpc, rpc, proc,
                   nlines, work_chan, sentRun, runCalls, doneAttempts,
                   earlyCancel, stopAtSpawn>>
    /\ UNCHANGED dvars

\* recv() fails: the channel is empty and its sender was dropped
LauncherChanClosed ==
    /\ lpc = "loop"
    /\ runner_chan = <<>>
    /\ rpc = "returned"
    /\ ret' = LoopExitValue
    /\ lpc' = "returned"
    /\ UNCHANGED <<wid, lid, should_stop, rx_open, work_rx_open, wpc, rpc, proc,
                   nlines, runner_chan, outward, work_chan, sentRun, received,
                   attempted, runCalls, doneAttempts, brokeOnSend, earlyCancel,
                   stopAtSpawn>>
    /\ UNCHANGED dvars

\* ---------------------------------------------------------------- Spec
Next ==
    \/ Cancel
    \/ DropReceiver
    \/ DropWorkReceiver
    \/ RunOnSeparateThread
    \/ WorkerCallRun
    \/ WorkerSendDone
    \/ RunnerSpawnFail
    \/ RunnerSpawnOk
    \/ RunnerOutputLine
    \/ RunnerProcessExit
    \/ RunnerCancelled
    \/ LauncherRecv
    \/ LauncherChanClosed

Spec == Init /\ [][Next]_vars

TypeOK ==
    /\ wid \in Ids /\ lid \in Ids
    /\ should_stop \in BOOLEAN /\ rx_open \in BOOLEAN /\ work_rx_open \in BOOLEAN
    /\ wpc \in {"new", "spawned", "in_run", "terminated"}
    /\ lpc \in {"idle", "runner", "loop", "returned"}
    /\ rpc \in {"idle", "spawn", "stream", "returned"}
    /\ ret \in {"none", "true", "false"}
    /\ nlines \in 0..MaxLines

\* ---------------------------------------------------------------- properties
Types(seq) == [i \in 1..Len(seq) |-> seq[i].type]
Has(seq, t) == \E i \in 1..Len(seq) : seq[i].type = t
Count(seq, t) == Cardinality({i \in 1..Len(seq) : seq[i].type = t})

\* the outward Event the specification prescribes for one RunEvent
Prescribed(id, msg) ==
    IF msg.type = "ProcessCreated" THEN [type |-> "RunStart", id |-> id, arg |-> ""]
    ELSE IF msg.type = "ProcessNewOutputLine"
    THEN [type |-> "RunOutputLine", id |-> id, arg |-> msg.arg]
    ELSE IF msg.type = "ProcessEnd" THEN [type |-> "RunEnd", id |-> id, arg |-> ""]
    ELSE [type |-> "RunFail", id |-> id, arg |-> msg.arg]

\* C1: while no ProcessCreationFailed is received and the outward receiver
\* is open, the Events enqueued outward are exactly the element-wise
\* translation of the RunEvents received, in the same order; when run has
\* returned, every RunEvent the Runner sent has been received and translated.
C1_TranslationIsOneToOne ==
    (rx_open /\ ~Has(received, "ProcessCreationFailed"))
        => /\ Len(outward) = Len(received)
           /\ \A i \in 1..Len(received) : outward[i] = Prescribed(lid, received[i])
           /\ (lpc = "returned" => received = sentRun)

C1_Witness ==
    /\ lpc = "returned"
    /\ rx_open
    /\ Types(outward) = <<"RunStart", "RunOutputLine", "RunOutputLine", "RunEnd">>
    /\ outward[2].arg /= outward[3].arg

C3_AnyFailedSendReturnsTrue ==
    Len(attempted) > Len(outward)
        => /\ Len(attempted) = Len(outward) + 1
           /\ lpc = "returned"
           /\ ret = "true"

\* C3 amended: a failed outward send is the last send of the run and run
\* has returned; it returned true when the failed send was a RunStart,
\* RunOutputLine or RunEnd, and false when it was the RunFail.
C3_FailedSendStops ==
    Len(attempted) > Len(outward)
        => /\ Len(attempted) = Len(outward) + 1
           /\ lpc = "returned"
           /\ ret = IF attempted[Len(attempted)].type = "RunFail"
                    THEN "false" ELSE "true"

C3_Witness ==
    /\ brokeOnSend
    /\ ret = "true"
    /\ Len(attempted) = Len(outward) + 1
    /\ Len(runner_chan) >= 2

\* C4: Launcher::run returns false exactly when it received a
\* ProcessCreationFailed, and true in every other way of finishing.
C4_FalseIffCreationFailed ==
    /\ (lpc = "returned") <=> (ret /= "none")
    /\ (ret = "false") <=> Has(received, "ProcessCreationFailed")
    /\ (lpc = "returned" /\ ~Has(received, "ProcessCreationFailed")) => ret = "true"

C4_Witness ==
    /\ ret = "false"
    /\ ~rx_open
    /\ outward = <<>>
    /\ Has(received, "ProcessCreationFailed")

\* C5: the Worker thread calls work.run once, and sends Done(id) with the
\* Worker's id once, after run has returned, whatever run returned; the
\* thread terminates also when that send fails.
C5_DoneOnceAfterRun ==
    /\ runCalls <= 1
    /\ doneAttempts <= 1
    /\ (doneAttempts = 1 => (runCalls = 1 /\ lpc = "returned" /\ wpc = "terminated"))
    /\ (wpc = "terminated" => (runCalls = 1 /\ doneAttempts = 1))
    /\ (work_chan = <<>> \/ work_chan = <<[type |-> "Done", id |-> wid]>>)
    /\ (work_chan /= <<>> => doneAttempts = 1)
    /\ ((doneAttempts = 1 /\ work_chan = <<>>) => ~work_rx_open)

C5_Witness ==
    /\ wpc = "terminated"
    /\ ret = "false"
    /\ work_chan = <<[type |-> "Done", id |-> wid]>>

\* C6 as stated: every outward Event carries the id of the Worker.
C6_EventsCarryWorkerId ==
    \A i \in 1..Len(outward) : outward[i].id = wid

\* C6 amended: every outward Event carries the id the Launcher was
\* constructed with; it is the Worker's id when both were constructed with
\* the same id.
C6_EventsCarryLauncherId ==
    /\ \A i \in 1..Len(attempted) : attempted[i].id = lid
    /\ \A i \in 1..Len(outward) : outward[i].id = lid
    /\ (lid = wid => \A i \in 1..Len(outward) : outward[i].id = wid)

C6_Witness ==
    /\ lid /= wid
    /\ Has(outward, "RunStart")
    /\ Has(outward, "RunOutputLine")
    /\ Has(outward, "RunEnd")

\* C7: in the outward Events of a run, RunStart precedes every
\* RunOutputLine, every RunOutputLine precedes the RunEnd, there is at most
\* one RunEnd and one RunStart, and a run with a RunFail has no other Event.
C7_OutwardOrder ==
    /\ Count(outward, "RunStart") <= 1
    /\ Count(outward, "RunEnd") <= 1
    /\ \A j \in 1..Len(outward) :
        outward[j].type \in {"RunOutputLine", "RunEnd"}
            => \E i \in 1..(j - 1) : outward[i].type = "RunStart"
    /\ \A i, j \in 1..Len(outward) :
        (outward[i].type = "RunEnd" /\ outward[j].type = "RunOutputLine") => j < i
    /\ Has(outward, "RunFail") => Len(outward) = 1

C7_Witness ==
    /\ Types(outward) = <<"RunStart", "RunOutputLine", "RunEnd">>
    /\ lpc = "returned"

\* the part of C8 about ProcessCreationFailed: nothing follows it
NothingAfterCreationFailed ==
    /\ \A i \in 1..Len(sentRun) :
        sentRun[i].type = "ProcessCreationFailed" => Len(sentRun) = 1
    /\ \A i \in 1..Len(attempted) :
        attempted[i].type = "RunFail" => Len(attempted) = 1

C9_OutputIsStreamed ==
    (proc = "running" /\ Has(runner_chan, "ProcessNewOutputLine")) => lpc = "loop"

\* what the code does instead: every outward Event is emitted after
\* Runner::run has returned
OutwardOnlyAfterRunnerReturned ==
    outward /= <<>> => rpc = "returned"

\* C10: when the cancellation flag was set before the process was spawned,
\* ProcessCreated is never sent and RunStart is never emitted.
C10_CancelBeforeStartPreventsRunStart ==
    stopAtSpawn = "set"
        => (~Has(sentRun, "ProcessCreated") /\ ~Has(attempted, "RunStart"))

\* the other half of C10: once the flag is set, no further output line is
\* read and sent by the Runner
NoOutputAfterCancel ==
    [][should_stop => ~(Len(sentRun') > Len(sentRun)
                        /\ sentRun'[Len(sentRun')].type = "ProcessNewOutputLine")]_vars

\* C11: the cancellation flag is set-only: once set it stays set, and a
\* step that changes it is a step of the dispatcher alone: no step of the
\* Worker thread, of Launcher::run or of the Runner writes it.
C11_FlagIsSetOnly ==
    [][/\ should_stop => should_stop'
       /\ should_stop' /= should_stop
            => UNCHANGED <<wpc, lpc, rpc, proc, runner_chan, outward, work_chan,
                           ret, runCalls, doneAttempts>>]_vars

C11_Witness ==
    /\ should_stop
    /\ stopAtSpawn = "clear"
    /\ wpc = "terminated"
    /\ doneAttempts = 1

\* C24: when the Worker sends Done, Launcher::run has returned, so every
\* Event of its Work is already on the outward channel; from then on no
\* Event is passed to the outward channel, and the channel of the
\* dispatcher holds nothing but the Done of this Worker.
C24_DoneIsLast ==
    /\ [](doneAttempts > 0
            => /\ lpc = "returned"
               /\ rpc = "returned"
               /\ Len(attempted) = Len(received)
               /\ \A i \in 1..Len(work_chan) : work_chan[i] = Done(wid))
    /\ [][doneAttempts' > 0
            => (outward' = outward /\ attempted' = attempted)]_vars

\* Done is queued after RunStart, every line and RunEnd
C24_Witness ==
    /\ work_chan = <<Done(wid)>>
    /\ Len(outward) = MaxLines + 2
    /\ outward[1].type = "RunStart"
    /\ outward[Len(outward)].type = "RunEnd"
    /\ wid /= lid

\* ---------------------------------------------------------------- CheckState
Outputs == {"out1", "out2"}

\* Check: name, args, test (CheckTest::Output { expected })
CheckSet ==
    { [name |-> "c1", args |-> <<"Joe", "5">>, expected |-> "out1"],
      [name |-> "c2", args |-> <<>>, expected |-> "out2"] }

SeqsUpTo(S, n) == UNION { [1..k -> S] : k \in 0..n }

\* enum CheckStatus; a: actual output or error, e: expected output, d: diff
Passed == [tag |-> "Passed", a |-> "", e |-> "", d |-> <<>>]
Failed(actual, expected, diff) ==
    [tag |-> "Failed", a |-> actual, e |-> expected, d |-> diff]
Checking == [tag |-> "Checking", a |-> "", e |-> "", d |-> <<>>]
Running == [tag |-> "Running", a |-> "", e |-> "", d |-> <<>>]
RunFail(err) == [tag |-> "RunFail", a |-> err, e |-> "", d |-> <<>>]
Pending == [tag |-> "Pending", a |-> "", e |-> "", d |-> <<>>]

\* the diff collaborator, an opaque value made of its two arguments
Diff(expected, actual) == <<expected, actual>>

\* mutant of CheckStateNew: the state starts as Running
CheckStateNewRunning(check) == [check |-> check, status |-> Running]

\* CheckState::new
CheckStateNew(check) == [check |-> check, status |-> Pending]

\* mutant of all_checks_passed: `any` in place of `all`
RECURSIVE any_check_passed(_)
any_check_passed(cs) ==
    IF cs = <<>> THEN FALSE
    ELSE IF Head(cs).status = Passed THEN TRUE
    ELSE any_check_passed(Tail(cs))

\* the iteration of App::all_checks_passed
RECURSIVE all_from(_)
all_from(cs) ==
    IF cs = <<>> THEN TRUE
    ELSE IF Head(cs).status = Passed THEN all_from(Tail(cs))
    ELSE FALSE

\* App::all_checks_passed
all_checks_passed(cs) == all_from(cs)

\* the status of the check being run becomes st
SetStatus(st) ==
    /\ checks' = [checks EXCEPT ![cur].status = st]
    /\ visited' = [visited EXCEPT ![cur] = Append(@, st.tag)]

\* a validation pass starts: one fresh CheckState per Check of the exercise
StartValidation ==
    /\ pass < MaxPasses
    /\ cur = 0 \/ cur > Len(checks)
    /\ pass' = pass + 1
    /\ checks' = [i \in 1..Len(exo_checks) |-> CheckStateNew(exo_checks[i])]
    /\ created' = [i \in 1..Len(exo_checks) |-> CheckStateNew(exo_checks[i])]
    /\ visited' = [i \in 1..Len(exo_checks) |-> <<CheckStateNew(exo_checks[i]).status.tag>>]
    /\ failErr' = [i \in 1..Len(exo_checks) |-> ""]
    /\ cur' = 1
    /\ captured' = ""
    /\ UNCHANGED <<exo_checks, lastEval>>
    /\ UNCHANGED outsideChecks

\* RunStart of the check being run: the process has started
OnRunStart ==
    /\ cur \in 1..Len(checks)
    /\ checks[cur].status = Pending
    /\ SetStatus(Running)
    /\ UNCHANGED <<exo_checks, cur, captured, pass, created, failErr, lastEval>>
    /\ UNCHANGED outsideChecks

\* mutant of OnRunFail: the failure is reported after a comparison step
OnRunFailViaChecking ==
    /\ cur \in 1..Len(checks)
    /\ checks[cur].status = Pending
    /\ \E err \in Errs :
        /\ checks' = [checks EXCEPT ![cur].status = RunFail(err)]
        /\ visited' = [visited EXCEPT ![cur] = @ \o <<"Checking", "RunFail">>]
        /\ failErr' = [failErr EXCEPT ![cur] = err]
    /\ cur' = cur + 1
    /\ captured' = ""
    /\ UNCHANGED <<exo_checks, pass, created, lastEval>>
    /\ UNCHANGED outsideChecks

\* RunFail of the check being run: the process could not be launched;
\* the next check is run
OnRunFail ==
    /\ cur \in 1..Len(checks)
    /\ checks[cur].status = Pending
    /\ \E err \in Errs :
        /\ SetStatus(RunFail(err))
        /\ failErr' = [failErr EXCEPT ![cur] = err]
    /\ cur' = cur + 1
    /\ captured' = ""
    /\ UNCHANGED <<exo_checks, pass, created, lastEval>>
    /\ UNCHANGED outsideChecks

\* mutant of OnRunEnd: the verdict is given without the Checking status
OnRunEndSkipsChecking ==
    /\ cur \in 1..Len(checks)
    /\ checks[cur].status = Running
    /\ \E out \in Outputs : captured' = out
    /\ SetStatus(Passed)
    /\ UNCHANGED <<exo_checks, cur, pass, created, failErr, lastEval>>
    /\ UNCHANGED outsideChecks

\* RunEnd of the check being run: the output is fully captured
OnRunEnd ==
    /\ cur \in 1..Len(checks)
    /\ checks[cur].status = Running
    /\ \E out \in Outputs : captured' = out
    /\ SetStatus(Checking)
    /\ UNCHANGED <<exo_checks, cur, pass, created, failErr, lastEval>>
    /\ UNCHANGED outsideChecks

\* the captured output is compared with the expected one (exact equality);
\* the next check is run
Compare ==
    /\ cur \in 1..Len(checks)
    /\ checks[cur].status = Checking
    /\ LET expected == checks[cur].check.expected
       IN  IF captured = expected
           THEN SetStatus(Passed)
           ELSE SetStatus(Failed(captured, expected, Diff(expected, captured)))
    /\ cur' = cur + 1
    /\ captured' = ""
    /\ UNCHANGED <<exo_checks, pass, created, failErr, lastEval>>
    /\ UNCHANGED outsideChecks

\* the front end asks whether the exercise is solved
EvalSolved ==
    /\ lastEval' = [on |-> checks, res |-> IF all_checks_passed(checks) THEN "true" ELSE "false"]
    /\ lastEval' /= lastEval
    /\ UNCHANGED <<exo_checks, checks, cur, captured, pass, created, visited, failErr>>
    /\ UNCHANGED outsideChecks

InitCheck ==
    /\ PipelineIdle /\ ExoIdle /\ DispatchIdle /\ ProjectIdle
    /\ exo_checks \in SeqsUpTo(CheckSet, MaxChecks)
    /\ checks = <<>>
    /\ cur = 0
    /\ captured = ""
    /\ pass = 0
    /\ created = <<>>
    /\ visited = <<>>
    /\ failErr = <<>>
    /\ lastEval = [on |-> <<>>, res |-> "none"]

NextCheck ==
    \/ StartValidation
    \/ OnRunStart
    \/ OnRunFail
    \/ OnRunEnd
    \/ Compare
    \/ EvalSolved

SpecCheck == InitCheck /\ [][NextCheck]_vars

\* ---------------------------------------------------------------- properties of the checks
Tags(cs) == [i \in 1..Len(cs) |-> cs[i].status.tag]
Range(f) == {f[i] : i \in DOMAIN f}

\* C12: all_checks_passed is true exactly when every status of the list is
\* Passed, and is true of the empty list.
C12_AllChecksPassedIffEveryPassed ==
    /\ all_checks_passed(checks) <=> (Range(Tags(checks)) \subseteq {"Passed"})
    /\ lastEval.res /= "none"
        => /\ (lastEval.res = "true") <=> (Range(Tags(lastEval.on)) \subseteq {"Passed"})
           /\ lastEval.on = <<>> => lastEval.res = "true"

C12_Witness ==
    /\ lastEval.res = "true"
    /\ Len(lastEval.on) = 2
    /\ pass = 2

C12_WitnessEmpty ==
    /\ lastEval.res = "true"
    /\ lastEval.on = <<>>
    /\ pass = 1

\* the status changes the claim C13 allows within one validation pass
AllowedMoves ==
    { <<"Pending", "Running">>, <<"Running", "Checking">>,
      <<"Checking", "Passed">>, <<"Checking", "Failed">>,
      <<"Pending", "RunFail">>, <<"Running", "RunFail">> }

\* C13: within one validation pass a status only moves along
\* Pending -> Running -> Checking -> {Passed, Failed}; Passed and Failed are
\* entered from Checking only; Passed, Failed and RunFail are never left.
C13_StatusMovesForward ==
    [][pass' = pass =>
        \A i \in 1..Len(checks) :
            checks'[i].status /= checks[i].status
                => <<checks[i].status.tag, checks'[i].status.tag>> \in AllowedMoves]_vars

C13_Witness ==
    /\ Len(checks) = 2
    /\ visited[1] = <<"Pending", "Running", "Checking", "Failed">>
    /\ visited[2] = <<"Pending", "Running", "Checking", "Passed">>

\* C14: a check whose run ended with the RunFail Event has the status
\* RunFail(error) with the error of the Event, and has not had the status
\* Checking in that pass; no other check has the status RunFail.
C14_RunFailWithoutChecking ==
    \A i \in 1..Len(checks) :
        /\ failErr[i] /= ""
            => /\ checks[i].status = [tag |-> "RunFail", a |-> failErr[i], e |-> "", d |-> <<>>]
               /\ "Checking" \notin Range(visited[i])
        /\ checks[i].status.tag = "RunFail" => failErr[i] /= ""

C14_Witness ==
    /\ Len(checks) = 2
    /\ checks[1].status.tag = "RunFail"
    /\ checks[1].status.a = "enoent"
    /\ checks[2].status.tag = "Passed"

\* C15: every CheckState made by CheckState::new has the status Pending
\* and holds the Check it was made from.
C15_NewIsPending ==
    pass > 0
        => /\ Len(created) = Len(exo_checks)
           /\ \A i \in 1..Len(created) :
                /\ created[i].status.tag = "Pending"
                /\ created[i].status = [tag |-> "Pending", a |-> "", e |-> "", d |-> <<>>]
                /\ created[i].check = exo_checks[i]

C15_Witness ==
    /\ pass = 1
    /\ Len(created) = 2
    /\ created[1].check /= created[2].check
    /\ checks = created

\* ---------------------------------------------------------------- Exo
SolPaths == {"a.sol.c", "b.sol.c", "main.sol.c", "main.sol.cpp"}

\* the lists without repetition of at most n elements of S
DistinctSeqsUpTo(S, n) ==
    { q \in SeqsUpTo(S, n) : \A i, j \in 1..Len(q) : q[i] = q[j] => i = j }

\* Vec indexing from 0; out of bounds is a panic
VecAt(v, i, default) ==
    IF i + 1 \in 1..Len(v)
    THEN [kind |-> "Ok", path |-> v[i + 1]]
    ELSE [kind |-> "Panic", path |-> default]

\* mutant of get_solution_file: `>` in place of `>=`
get_solution_file_gt(solutions, solution_idx) ==
    IF solution_idx > Len(solutions)
    THEN [kind |-> "Err", path |-> ""]
    ELSE VecAt(solutions, solution_idx, "")

\* App::get_solution_file
get_solution_file(solutions, solution_idx) ==
    IF solution_idx >= Len(solutions)
    THEN [kind |-> "Err", path |-> ""]
    ELSE VecAt(solutions, solution_idx, "")

\* a call of get_solution_file(&exo, idx); the exo is borrowed immutably
CallGetSolutionFile ==
    /\ \E idx \in 0..(MaxSols + 1) :
        LET r == get_solution_file(exo_solutions, idx)
        IN  lastSol' = [before |-> exo_solutions, idx |-> idx,
                        kind |-> r.kind, path |-> r.path]
    /\ lastSol' /= lastSol
    /\ UNCHANGED <<exo_solutions, exo_files, lastCompiler>>
    /\ UNCHANGED outsideExo

\* main.c, main.cpp, util.cc, util.h and the hidden file .c
FileNames == {<<"main", "c">>, <<"main", "cpp">>, <<"util", "cc">>,
              <<"util", "h">>, <<"", "c">>}

\* Path::extension with unwrap_or_default: what follows the last dot of the
\* name; "" for a name without a dot and for a name whose only dot is its
\* first character
extension(file) ==
    IF Len(file) < 2 THEN ""
    ELSE IF Len(file) = 2 /\ file[1] = "" THEN ""
    ELSE file[Len(file)]

RECURSIVE compiler_breaks_on_c_from(_, _, _)
compiler_breaks_on_c_from(files, i, compiler) ==
    IF i > Len(files) THEN compiler
    ELSE IF extension(files[i]) = "cpp" \/ extension(files[i]) = "cc" THEN "Gxx"
    ELSE IF extension(files[i]) = "c" THEN "Gcc"
    ELSE compiler_breaks_on_c_from(files, i + 1, compiler)

\* mutant of compiler: the loop also stops at the first c file
compiler_breaks_on_c(files) == compiler_breaks_on_c_from(files, 1, "None")

\* the loop of Exo::compiler from position i, with the value of `compiler`
RECURSIVE compiler_from(_, _, _)
compiler_from(files, i, compiler) ==
    IF i > Len(files) THEN compiler
    ELSE IF extension(files[i]) = "cpp" \/ extension(files[i]) = "cc" THEN "Gxx"
    ELSE IF extension(files[i]) = "c" THEN compiler_from(files, i + 1, "Gcc")
    ELSE compiler_from(files, i + 1, compiler)

\* Exo::compiler
compiler(files) == compiler_from(files, 1, "None")

\* a call of exo.compiler(); the exo is borrowed immutably
CallCompiler ==
    /\ lastCompiler' = [before |-> exo_files, kind |-> "called",
                        res |-> compiler(exo_files)]
    /\ lastCompiler' /= lastCompiler
    /\ UNCHANGED <<exo_solutions, lastSol, exo_files>>
    /\ UNCHANGED outsideExo

InitExo ==
    /\ PipelineIdle /\ CheckIdle /\ DispatchIdle /\ ProjectIdle
    /\ exo_solutions \in DistinctSeqsUpTo(SolPaths, MaxSols)
    /\ lastSol = [before |-> <<>>, idx |-> 0, kind |-> "none", path |-> ""]
    /\ exo_files \in DistinctSeqsUpTo(FileNames, MaxFiles)
    /\ lastCompiler = [before |-> <<>>, kind |-> "none", res |-> "None"]

NextExo ==
    \/ CallGetSolutionFile
    \/ CallCompiler

SpecExo == InitExo /\ [][NextExo]_vars

\* ---------------------------------------------------------------- properties of the exo
\* C16: get_solution_file returns an error, without a panic and without a
\* change of the exo, when idx >= number of solutions (also for no
\* solution); otherwise it returns the solution at position idx.
C16_SolutionIndexChecked ==
    lastSol.kind /= "none"
        => /\ lastSol.kind /= "Panic"
           /\ exo_solutions = lastSol.before
           /\ lastSol.idx >= Len(exo_solutions) => lastSol.kind = "Err"
           /\ lastSol.idx < Len(exo_solutions)
                => /\ lastSol.kind = "Ok"
                   /\ lastSol.path = exo_solutions[lastSol.idx + 1]

C16_Witness ==
    /\ Len(exo_solutions) = 2
    /\ lastSol.idx = 2
    /\ lastSol.kind = "Err"

C16_WitnessOk ==
    /\ Len(exo_solutions) = 2
    /\ lastSol.idx = 1
    /\ lastSol.kind = "Ok"
    /\ lastSol.path = exo_solutions[2]

\* the extensions of the exo files
Extensions == { extension(exo_files[i]) : i \in 1..Len(exo_files) }

\* C23: compiler gives Gxx when some exo file has extension cpp or cc,
\* wherever it is in the list; Gcc when none has and some file has
\* extension c; None when no file has extension c, cpp or cc, as for an
\* empty list. The exo is left as it was.
C23_CompilerFromExtensions ==
    lastCompiler.kind = "called"
        => /\ exo_files = lastCompiler.before
           /\ Extensions \cap {"cpp", "cc"} /= {} => lastCompiler.res = "Gxx"
           /\ (Extensions \cap {"cpp", "cc"} = {} /\ "c" \in Extensions)
                => lastCompiler.res = "Gcc"
           /\ Extensions \cap {"c", "cpp", "cc"} = {}
                => lastCompiler.res = "None"

\* a c file comes before the cpp file
C23_Witness ==
    /\ lastCompiler.kind = "called"
    /\ exo_files = <<<<"main", "c">>, <<"util", "h">>, <<"main", "cpp">>>>
    /\ lastCompiler.res = "Gxx"

C23_WitnessGcc ==
    /\ lastCompiler.kind = "called"
    /\ exo_files = <<<<"util", "h">>, <<"main", "c">>, <<"", "c">>>>
    /\ lastCompiler.res = "Gcc"

C23_WitnessNone ==
    /\ lastCompiler.kind = "called"
    /\ exo_files \in {<<>>, <<<<"", "c">>, <<"util", "h">>>>}
    /\ lastCompiler.res = "None"

\* ---------------------------------------------------------------- WorkHandler
\* mutant of DoneId: the Done carries a constant id
DoneIdZero(id) == 0

\* the id a Worker puts in its Done: self.id
DoneId(id) == id

\* submit(work) -> id: a fresh id, a cancellation flag for it, a Worker
\* made with that id and started, an entry in the pool
Submit ==
    /\ next_id < MaxSubmits
    /\ next_id' = next_id + 1
    /\ pool' = pool \cup {next_id}
    /\ running' = running \cup {next_id}
    /\ handed' = Append(handed, next_id)
    /\ UNCHANGED <<flag_set, done_chan, doneOf>>
    /\ UNCHANGED outsideDispatch

\* cancel(id): the flag of a tracked id is set
CancelId ==
    /\ \E id \in pool \ flag_set : flag_set' = flag_set \cup {id}
    /\ UNCHANGED <<pool, running, next_id, done_chan, handed, doneOf>>
    /\ UNCHANGED outsideDispatch

\* the thread of a Worker ends: work.run has returned and Done is sent
WorkerFinishes ==
    /\ \E id \in running :
        /\ running' = running \ {id}
        /\ done_chan' = Append(done_chan, [ev |-> Done(DoneId(id)), from |-> id])
    /\ UNCHANGED <<pool, flag_set, next_id, handed, doneOf>>
    /\ UNCHANGED outsideDispatch

\* the dispatcher receives Done(id) and removes the entry of id
ProcessDone ==
    /\ done_chan /= <<>>
    /\ pool' = pool \ {Head(done_chan).ev.id}
    /\ doneOf' = doneOf \cup {Head(done_chan).from}
    /\ done_chan' = Tail(done_chan)
    /\ UNCHANGED <<flag_set, running, next_id, handed>>
    /\ UNCHANGED outsideDispatch

InitDispatch ==
    /\ PipelineIdle /\ CheckIdle /\ ExoIdle /\ ProjectIdle
    /\ DispatchIdle

NextDispatch ==
    \/ Submit
    \/ CancelId
    \/ WorkerFinishes
    \/ ProcessDone

SpecDispatch == InitDispatch /\ [][NextDispatch]_vars

\* ---------------------------------------------------------------- properties of the dispatcher
\* C17: an id handed out by submit is tracked (resolvable to its flag)
\* until the Done of its Worker has been processed, and submit never hands
\* out an id that is still tracked.
C17_IdsTrackedUntilDone ==
    /\ [](\A i \in 1..Len(handed) : handed[i] \notin doneOf => handed[i] \in pool)
    /\ [][Len(handed') > Len(handed) => handed'[Len(handed')] \notin pool]_vars

C17_Witness ==
    /\ doneOf = {0}
    /\ pool = {1, 2}
    /\ 1 \in flag_set
    /\ running = {2}

\* ---------------------------------------------------------------- Project
\* the Project at the start of an operation; nsaves and written count the
\* calls of save_state during the operation and tell whether every write
\* succeeded; panic tells that an index was out of bounds
Proj ==
    [skill |-> curr_skill_idx, exo |-> curr_exo_idx, saved |-> saved,
     nsaves |-> 0, written |-> TRUE, panic |-> FALSE]

\* self.skills[i].exos.len(), for i within bounds
ExosLen(i) == skills[i + 1]

is_first_skill(p) == p.skill = 0
is_first_exo(p) == p.exo = 0
is_last_skill(p) == p.skill = Len(skills) - 1
is_last_exo(p) == p.exo = ExosLen(p.skill) - 1

\* save_state: the write may fail, which is only logged
save_state(p, ok) ==
    [p EXCEPT !.saved = IF ok THEN [curr_skill_idx |-> p.skill, curr_exo_idx |-> p.exo]
                        ELSE @,
              !.nsaves = @ + 1,
              !.written = @ /\ ok]

set_curr_exo(p, i, ok) ==
    IF p.exo /= i THEN save_state([p EXCEPT !.exo = i], ok) ELSE p

set_curr_skill(p, i, ok) ==
    IF p.skill /= i THEN save_state([p EXCEPT !.skill = i], ok) ELSE p

\* mutant of prev_exo: wrapping lands on the first exo of the skill
prev_exo_to_first(p, wrap, ok1, ok2) ==
    IF ~is_first_exo(p) THEN [p EXCEPT !.exo = @ - 1]
    ELSE IF wrap
    THEN LET q == IF ~is_first_skill(p)
                  THEN set_curr_skill(p, p.skill - 1, ok1)
                  ELSE set_curr_skill(p, Len(skills) - 1, ok1)
         IN  set_curr_exo(q, 0, ok2)
    ELSE p

\* Project::prev_exo
prev_exo(p, wrap, ok1, ok2) ==
    IF ~is_first_exo(p) THEN [p EXCEPT !.exo = @ - 1]
    ELSE IF wrap
    THEN LET q == IF ~is_first_skill(p)
                  THEN set_curr_skill(p, p.skill - 1, ok1)
                  ELSE set_curr_skill(p, Len(skills) - 1, ok1)
         IN  IF q.skill < Len(skills)
             THEN set_curr_exo(q, ExosLen(q.skill) - 1, ok2)
             ELSE [q EXCEPT !.panic = TRUE]
    ELSE p

\* mutant of prev_skill: the exo index is kept
prev_skill_keeps_exo(p, wrap, ok1, ok2) ==
    IF is_first_skill(p)
    THEN IF wrap THEN set_curr_skill(p, Len(skills) - 1, ok1) ELSE p
    ELSE set_curr_skill(p, p.skill - 1, ok1)

\* Project::prev_skill
prev_skill(p, wrap, ok1, ok2) ==
    LET q == IF is_first_skill(p)
             THEN IF wrap THEN set_curr_skill(p, Len(skills) - 1, ok1) ELSE p
             ELSE set_curr_skill(p, p.skill - 1, ok1)
    IN  set_curr_exo(q, 0, ok2)

\* mutant of next_exo: wrapping keeps the exo index
next_exo_keeps_exo(p, wrap, ok1, ok2) ==
    IF ~(p.skill < Len(skills)) THEN [p EXCEPT !.panic = TRUE]
    ELSE IF ~is_last_exo(p) THEN [p EXCEPT !.exo = @ + 1]
    ELSE IF wrap
    THEN IF ~is_last_skill(p)
         THEN set_curr_skill(p, p.skill + 1, ok2)
         ELSE set_curr_skill(p, 0, ok2)
    ELSE p

\* mutant of next_exo: the last exo wraps whatever `wrap` is
next_exo_wraps_always(p, wrap, ok1, ok2) ==
    IF ~(p.skill < Len(skills)) THEN [p EXCEPT !.panic = TRUE]
    ELSE IF ~is_last_exo(p) THEN [p EXCEPT !.exo = @ + 1]
    ELSE LET q == set_curr_exo(p, 0, ok1)
         IN  IF ~is_last_skill(q)
             THEN set_curr_skill(q, q.skill + 1, ok2)
             ELSE set_curr_skill(q, 0, ok2)

\* Project::next_exo
next_exo(p, wrap, ok1, ok2) ==
    IF ~(p.skill < Len(skills)) THEN [p EXCEPT !.panic = TRUE]
    ELSE IF ~is_last_exo(p) THEN [p EXCEPT !.exo = @ + 1]
    ELSE IF wrap
    THEN LET q == set_curr_exo(p, 0, ok1)
         IN  IF ~is_last_skill(q)
             THEN set_curr_skill(q, q.skill + 1, ok2)
             ELSE set_curr_skill(q, 0, ok2)
    ELSE p

\* mutant of next_skill: the exo index is reset only when the skill changes
next_skill_resets_on_change(p, wrap, ok1, ok2) ==
    LET q == IF ~is_last_skill(p) THEN set_curr_skill(p, p.skill + 1, ok1)
             ELSE IF wrap THEN set_curr_skill(p, 0, ok1)
             ELSE p
    IN  IF q.skill /= p.skill THEN set_curr_exo(q, 0, ok2) ELSE q

\* Project::next_skill
next_skill(p, wrap, ok1, ok2) ==
    LET q == IF ~is_last_skill(p) THEN set_curr_skill(p, p.skill + 1, ok1)
             ELSE IF wrap THEN set_curr_skill(p, 0, ok1)
             ELSE p
    IN  set_curr_exo(q, 0, ok2)

\* the Project after an operation that gave r, with its record in lastOp
Becomes(name, wrap, r) ==
    /\ r.skill <= MaxIdx
    /\ r.exo <= MaxIdx
    /\ curr_skill_idx' = r.skill
    /\ curr_exo_idx' = r.exo
    /\ saved' = r.saved
    /\ panicked' = r.panic
    /\ lastOp' = [op |-> name, wrap |-> wrap, skill |-> curr_skill_idx,
                  exo |-> curr_exo_idx, nsaves |-> r.nsaves,
                  written |-> r.written]
    /\ found' = NotLooked
    /\ writes_ok' = (writes_ok /\ r.written)
    /\ UNCHANGED <<skills, opened_valid>>
    /\ UNCHANGED outsideProject

CallPrevExo ==
    /\ ~panicked
    /\ \E wrap, ok1, ok2 \in BOOLEAN :
        Becomes("prev_exo", wrap, prev_exo(Proj, wrap, ok1, ok2))

CallPrevSkill ==
    /\ ~panicked
    /\ \E wrap, ok1, ok2 \in BOOLEAN :
        Becomes("prev_skill", wrap, prev_skill(Proj, wrap, ok1, ok2))

CallNextExo ==
    /\ ~panicked
    /\ \E wrap, ok1, ok2 \in BOOLEAN :
        Becomes("next_exo", wrap, next_exo(Proj, wrap, ok1, ok2))

CallNextSkill ==
    /\ ~panicked
    /\ \E wrap, ok1, ok2 \in BOOLEAN :
        Becomes("next_skill", wrap, next_skill(Proj, wrap, ok1, ok2))

\* the ProjectState (sk, ex) designates an exo of the project
Designates(sk, ex) ==
    IF sk < Len(skills) THEN ex < skills[sk + 1] ELSE FALSE

\* self.skills[s].exos[e]: the exo is named by its two positions; an index
\* out of bounds aborts
ExoAt(s, e) ==
    IF s < Len(skills) /\ e < ExosLen(s)
    THEN [kind |-> "Exo", skill |-> s, exo |-> e]
    ELSE [kind |-> "panic", skill |-> 0, exo |-> 0]

\* Option<&Exo>
Some(x) == IF x.kind = "Exo" THEN [x EXCEPT !.kind = "Some"] ELSE x
None == [kind |-> "None", skill |-> 0, exo |-> 0]

\* mutant of resume: only the skill index is tested
resume_tests_skill_only(p) ==
    IF p.skill < Len(skills)
    THEN [p |-> p, res |-> Some(ExoAt(p.skill, p.exo))]
    ELSE [p |-> p, res |-> None]

\* Project::resume
resume(p) ==
    IF p.skill < Len(skills) /\ p.exo < ExosLen(p.skill)
    THEN [p |-> p, res |-> Some(ExoAt(p.skill, p.exo))]
    ELSE [p |-> p, res |-> None]

\* App::current_exo
current_exo(p) == [p |-> p, res |-> ExoAt(p.skill, p.exo)]

\* the Project after a lookup that gave r, with its record in lastOp and found
Looked(name, r) ==
    /\ curr_skill_idx' = r.p.skill
    /\ curr_exo_idx' = r.p.exo
    /\ saved' = r.p.saved
    /\ panicked' = (r.res.kind = "panic")
    /\ lastOp' = [op |-> name, wrap |-> FALSE, skill |-> curr_skill_idx,
                  exo |-> curr_exo_idx, nsaves |-> r.p.nsaves,
                  written |-> r.p.written]
    /\ found' = r.res
    /\ writes_ok' = (writes_ok /\ r.p.written)
    /\ UNCHANGED <<skills, opened_valid>>
    /\ UNCHANGED outsideProject

CallResume ==
    /\ ~panicked
    /\ Looked("resume", resume(Proj))

CallCurrentExo ==
    /\ ~panicked
    /\ Looked("current_exo", current_exo(Proj))

\* Project::from_dir: at least one skill, each with at least one exo; the
\* state is the one of the state file, which may be stale
InitProject ==
    /\ PipelineIdle /\ CheckIdle /\ ExoIdle /\ DispatchIdle
    /\ skills \in UNION { [1..k -> 1..MaxExos] : k \in 1..MaxSkills }
    /\ curr_skill_idx \in 0..MaxIdx
    /\ curr_exo_idx \in 0..MaxIdx
    /\ saved = [curr_skill_idx |-> curr_skill_idx, curr_exo_idx |-> curr_exo_idx]
    /\ panicked = FALSE
    /\ lastOp = NoOp
    /\ found = NotLooked
    /\ writes_ok = TRUE
    /\ opened_valid = Designates(curr_skill_idx, curr_exo_idx)

NextProject ==
    \/ CallPrevExo
    \/ CallPrevSkill
    \/ CallNextExo
    \/ CallNextSkill
    \/ CallResume
    \/ CallCurrentExo

SpecProject == InitProject /\ [][NextProject]_vars

\* ---------------------------------------------------------------- properties of the project
\* the last operation was `name`, called on a skill index within bounds,
\* and did not abort
Did(name) ==
    /\ lastOp.op = name
    /\ lastOp.skill < Len(skills)
    /\ ~panicked

LastSkill == Len(skills) - 1
LastExoOf(sk) == skills[sk + 1] - 1

\* C18: next_exo away from the last exo of the skill adds one to the exo
\* index and keeps the skill; next_exo(true) at the last exo goes to exo 0
\* of the next skill, or of skill 0 from the last skill.
C18_NextExo ==
    Did("next_exo")
        => /\ lastOp.exo /= LastExoOf(lastOp.skill)
                => /\ curr_exo_idx = lastOp.exo + 1
                   /\ curr_skill_idx = lastOp.skill
           /\ (lastOp.exo = LastExoOf(lastOp.skill) /\ lastOp.wrap)
                => /\ curr_exo_idx = 0
                   /\ curr_skill_idx = IF lastOp.skill = LastSkill THEN 0
                                       ELSE lastOp.skill + 1

C18_Witness ==
    /\ Did("next_exo")
    /\ lastOp.wrap
    /\ skills = <<2, 1, 3>>
    /\ lastOp.skill = 2
    /\ lastOp.exo = 2
    /\ curr_skill_idx = 0
    /\ curr_exo_idx = 0

C18_WitnessInside ==
    /\ Did("next_exo")
    /\ skills = <<2, 1, 3>>
    /\ lastOp.skill = 2
    /\ lastOp.exo = 0
    /\ curr_skill_idx = 2
    /\ curr_exo_idx = 1

\* C19: prev_exo away from the first exo of the skill takes one from the
\* exo index and keeps the skill; prev_exo(true) at the first exo goes to
\* the last exo of the previous skill, or of the last skill from skill 0.
C19_PrevExo ==
    Did("prev_exo")
        => /\ lastOp.exo /= 0
                => /\ curr_exo_idx = lastOp.exo - 1
                   /\ curr_skill_idx = lastOp.skill
           /\ (lastOp.exo = 0 /\ lastOp.wrap)
                => /\ curr_skill_idx = IF lastOp.skill = 0 THEN LastSkill
                                       ELSE lastOp.skill - 1
                   /\ curr_exo_idx = LastExoOf(curr_skill_idx)

C19_Witness ==
    /\ Did("prev_exo")
    /\ lastOp.wrap
    /\ skills = <<2, 1, 3>>
    /\ lastOp.skill = 0
    /\ lastOp.exo = 0
    /\ curr_skill_idx = 2
    /\ curr_exo_idx = 2

\* C20: next_skill goes to the next skill, or with wrap from the last
\* skill to skill 0; prev_skill goes to the previous skill, or with wrap
\* from skill 0 to the last skill; without wrap at that boundary the skill
\* index stays; in every case the exo index becomes 0.
C20_SkillMoves ==
    /\ Did("next_skill")
        => /\ curr_exo_idx = 0
           /\ curr_skill_idx =
                IF lastOp.skill /= LastSkill THEN lastOp.skill + 1
                ELSE IF lastOp.wrap THEN 0
                ELSE lastOp.skill
    /\ Did("prev_skill")
        => /\ curr_exo_idx = 0
           /\ curr_skill_idx =
                IF lastOp.skill /= 0 THEN lastOp.skill - 1
                ELSE IF lastOp.wrap THEN LastSkill
                ELSE lastOp.skill

C20_Witness ==
    /\ Did("next_skill")
    /\ ~lastOp.wrap
    /\ skills = <<2, 1, 3>>
    /\ lastOp.skill = 2
    /\ lastOp.exo = 1
    /\ curr_skill_idx = 2
    /\ curr_exo_idx = 0

\* C21: resume returns the exo at (curr_skill_idx, curr_exo_idx) exactly
\* when both indices are within bounds, and None otherwise; it never
\* aborts and leaves the indices and the state file as they were.
C21_ResumeChecksBothIndices ==
    lastOp.op = "resume"
        => /\ ~panicked
           /\ found.kind \in {"Some", "None"}
           /\ found.kind = "Some" <=> Designates(lastOp.skill, lastOp.exo)
           /\ found.kind = "Some"
                => /\ found.skill = lastOp.skill
                   /\ found.exo = lastOp.exo
           /\ curr_skill_idx = lastOp.skill
           /\ curr_exo_idx = lastOp.exo
           /\ lastOp.nsaves = 0

\* a stale exo index: skill 1 has one exo, the state says exo 2
C21_Witness ==
    /\ lastOp.op = "resume"
    /\ skills = <<2, 1, 3>>
    /\ lastOp.skill = 1
    /\ lastOp.exo = 2
    /\ found = None

C21_WitnessSome ==
    /\ lastOp.op = "resume"
    /\ skills = <<2, 1, 3>>
    /\ lastOp.skill = 2
    /\ lastOp.exo = 2
    /\ found = [kind |-> "Some", skill |-> 2, exo |-> 2]
\* the four operations that move the current exo or skill
Moves == {"next_exo", "prev_exo", "next_skill", "prev_skill"}

InMemory == [curr_skill_idx |-> curr_skill_idx, curr_exo_idx |-> curr_exo_idx]

\* C22: after any sequence of next_exo, prev_exo, next_skill and prev_skill
\* in which every write succeeded, the ProjectState in the state file is
\* the ProjectState in memory.
C22_EveryChangeIsSaved ==
    (lastOp.op \in Moves /\ writes_ok /\ ~panicked) => saved = InMemory

\* what the code gives: the state file holds what the last set_curr_exo or
\* set_curr_skill that changed an index has written
SavedWhenSetterChanged ==
    (lastOp.op \in Moves /\ lastOp.written /\ lastOp.nsaves > 0 /\ ~panicked)
        => saved = InMemory

\* the same statement for projects opened on indices within bounds
EveryChangeIsSavedFromValidStart ==
    opened_valid => C22_EveryChangeIsSaved

\* C25: in a project whose skills all have an exo and that was opened on
\* indices within bounds, after any sequence of next_exo, prev_exo,
\* next_skill and prev_skill the skill index is below the number of skills
\* and the exo index below the number of exos of the current skill, so
\* that no call, current_exo included, indexes out of bounds.
C25_IndicesStayInBounds ==
    opened_valid
        => /\ curr_skill_idx < Len(skills)
           /\ Designates(curr_skill_idx, curr_exo_idx)
           /\ ~panicked

\* from the last exo of a skill of 3 exos to a skill of 1 exo
C25_Witness ==
    /\ opened_valid
    /\ lastOp.op = "prev_skill"
    /\ skills = <<2, 1, 3>>
    /\ lastOp.skill = 2
    /\ lastOp.exo = 2
    /\ curr_skill_idx = 1
    /\ curr_exo_idx = 0

C25_WitnessCurrentExo ==
    /\ opened_valid
    /\ lastOp.op = "current_exo"
    /\ skills = <<2, 1, 3>>
    /\ saved /= InMemory
    /\ found = [kind |-> "Exo", skill |-> 2, exo |-> 2]

\* C26: next_exo(false) at the last exo of a skill and prev_exo(false) at
\* the first exo of a skill keep both indices and do not call save_state.
C26_NoWrapKeepsState ==
    /\ (Did("next_exo") /\ ~lastOp.wrap /\ lastOp.exo = LastExoOf(lastOp.skill))
        => /\ curr_skill_idx = lastOp.skill
           /\ curr_exo_idx = lastOp.exo
           /\ lastOp.nsaves = 0
    /\ (Did("prev_exo") /\ ~lastOp.wrap /\ lastOp.exo = 0)
        => /\ curr_skill_idx = lastOp.skill
           /\ curr_exo_idx = lastOp.exo
           /\ lastOp.nsaves = 0

C26_Witness ==
    /\ Did("next_exo")
    /\ ~lastOp.wrap
    /\ skills = <<2, 1, 3>>
    /\ lastOp.skill = 0
    /\ lastOp.exo = 1
    /\ curr_skill_idx = 0
    /\ curr_exo_idx = 1
    /\ lastOp.nsaves = 0

C26_WitnessPrev ==
    /\ Did("prev_exo")
    /\ ~lastOp.wrap
    /\ skills = <<2, 1, 3>>
    /\ lastOp.skill = 1
    /\ lastOp.exo = 0
    /\ curr_skill_idx = 1
    /\ curr_exo_idx = 0
    /\ lastOp.nsaves = 0
====
